---- MODULE Spec2Model ----
(***************************************************************************)
(* Model of the dian-scrapper orchestration engine.                        *)
(*                                                                         *)
(* Part I models the Go program (src/unnamed/part_000): ProcessCedulas,    *)
(* its worker goroutines, the weighted semaphore, the results channel and  *)
(* the collector goroutine, with processCedula and solveCaptcha as pure    *)
(* operators over the replies of the browser and of the solving service.   *)
(***************************************************************************)
EXTENDS Integers, Sequences, FiniteSets, TLC

(***************************************************************************)
(* Bounds of the model.                                                    *)
(***************************************************************************)
\* longest input sequence explored
MaxLen == 2
\* longest input sequence explored with every page behaviour (RetrySpec)
MaxLenRetry == 1
\* runtime.NumCPU() of the machine the run is on
NumCPU == 2
\* largest Config.Concurrency explored
MaxConcurrency == 2
\* largest TimeoutConfig.MaxRetries explored with every page behaviour (RetrySpec)
MaxRetriesBound == 2
\* largest TimeoutConfig.MaxRetries explored with several browsers (Spec)
MaxRetriesPool == 1
\* longest input sequence explored for the sharding (ShardSpec)
MaxLenShard == 5
\* longest input explored for termination (LiveSpec); the channel buffer of a
\* run with one permit holds two Results
MaxLenLive == 3
\* most tasks and largest concurrencyLimit explored for the JS pool (PoolSpec)
MaxTasks == 3
MaxLimit == 2
\* longest input explored for the sequential JS scraper (SeqSpec)
MaxLenSeq == 3
\* most rows of a sheet and longest cell text explored for the readers (ReaderSpec)
MaxRows == 2
MaxCellLen == 2

\* the identifiers the input is drawn from, in the order they first occur
Identifiers == <<"100", "200">>

(***************************************************************************)
(* Texts.  A Go string is modelled as the sequence of the literal pieces   *)
(* it was formatted from; the empty string is the empty sequence.          *)
(***************************************************************************)
Sprintf(format, arg) == <<format>> \o arg

\* the pieces that have "captcha" as a substring (byte-wise, case-sensitive)
CaptchaPieces ==
    { "Error con captcha: ",
      "Error resolviendo captcha: ",
      "error enviando captcha a 2captcha: ",
      "error leyendo respuesta de 2captcha: ",
      "error parseando respuesta de 2captcha: ",
      "error en respuesta de 2captcha: ",
      "error resolviendo captcha: ",
      "timeout esperando resolucion del captcha",
      "El texto del captcha no coincide" }

\* strings.Contains(text, "captcha")
ContainsCaptcha(text) == \E k \in 1..Len(text) : text[k] \in CaptchaPieces

(***************************************************************************)
(* solveCaptcha.  submit is the outcome of the POST to in.php, polls the   *)
(* outcomes of the successive GETs to res.php (a poll past the end of the  *)
(* script answers CAPCHA_NOT_READY).                                       *)
(***************************************************************************)
\* the err of a failed chromedp.Run / http call, as text
ErrDeadline == <<"context deadline exceeded">>
ErrTransport == <<"dial tcp: i/o timeout">>
\* the err of chromedp.Run on a context that rootCancel has cancelled
ErrCanceled == <<"context canceled">>

MaxPollAttempts == 30

NotReady == [kind |-> "json", Status |-> 0, Request |-> "CAPCHA_NOT_READY"]
Unsolvable == [kind |-> "json", Status |-> 0, Request |-> "ERROR_CAPTCHA_UNSOLVABLE"]
Solved == [kind |-> "json", Status |-> 1, Request |-> "x7k2p"]
Accepted == [kind |-> "json", Status |-> 1, Request |-> "71234567"]
Rejected == [kind |-> "json", Status |-> 0, Request |-> "ERROR_ZERO_BALANCE"]
HttpFail == [kind |-> "transport", Status |-> 0, Request |-> ""]
ReadFail == [kind |-> "read", Status |-> 0, Request |-> ""]
BadJson == [kind |-> "parse", Status |-> 0, Request |-> ""]

PollReply(polls, i) == IF i <= Len(polls) THEN polls[i] ELSE NotReady

\* the poll loop from its i-th iteration on (i counts from 0 as in the code);
\* n is the number of GETs issued so far
RECURSIVE PollLoop(_, _, _)
PollLoop(polls, i, n) ==
    IF i >= MaxPollAttempts
    THEN [ok |-> FALSE, text |-> "", kind |-> "CaptchaPollTimeout", polls |-> n,
          err |-> <<"timeout esperando resolucion del captcha">>]
    ELSE LET r == PollReply(polls, i + 1) IN
         IF r.kind # "json" THEN PollLoop(polls, i + 1, n + 1)
         ELSE IF r.Status = 1
         THEN [ok |-> TRUE, text |-> r.Request, kind |-> "Solved", polls |-> n + 1,
               err |-> <<>>]
         ELSE IF r.Request # "CAPCHA_NOT_READY"
         THEN [ok |-> FALSE, text |-> "", kind |-> "CaptchaUnsolvable", polls |-> n + 1,
               err |-> Sprintf("error resolviendo captcha: ", <<r.Request>>)]
         ELSE PollLoop(polls, i + 1, n + 1)

solveCaptcha(submit, polls) ==
    IF submit.kind = "transport"
    THEN [ok |-> FALSE, text |-> "", kind |-> "CaptchaSubmitError", polls |-> 0,
          err |-> Sprintf("error enviando captcha a 2captcha: ", ErrTransport)]
    ELSE IF submit.kind = "read"
    THEN [ok |-> FALSE, text |-> "", kind |-> "CaptchaSubmitError", polls |-> 0,
          err |-> Sprintf("error leyendo respuesta de 2captcha: ", <<"unexpected EOF">>)]
    ELSE IF submit.kind = "parse"
    THEN [ok |-> FALSE, text |-> "", kind |-> "CaptchaSubmitError", polls |-> 0,
          err |-> Sprintf("error parseando respuesta de 2captcha: ", <<"invalid character">>)]
    ELSE IF submit.Status # 1
    THEN [ok |-> FALSE, text |-> "", kind |-> "CaptchaSubmitError", polls |-> 0,
          err |-> Sprintf("error en respuesta de 2captcha: ", <<submit.Request>>)]
    ELSE PollLoop(polls, 0, 0)

\* the solver variable when no solver client is run on its own
NoSolverRun ==
    [client |-> "none", pc |-> "idle", attempts |-> 0, status |-> "None",
     ack |-> <<>>, outcome |-> "none", err |-> "none", submits |-> 0, polls |-> 0,
     lost |-> 0, delay |-> 0, waited |-> 0]

\* the pool variable when scrapeDianCedulas is not run
NoPool ==
    [pc |-> "idle", cedulas |-> <<>>, limit |-> 0, tasks |-> <<>>, results |-> <<>>,
     running |-> 0, taskIndex |-> 0, promise |-> "pending", timer |-> "none",
     race |-> "pending", written |-> FALSE, returned |-> "no",
     starts |-> <<>>, values |-> <<>>, settled |-> <<>>]
NoSeq ==
    [pc |-> "idle", cedulas |-> <<>>, takeScreenshots |-> FALSE, i |-> 0,
     resultados |-> <<>>, pushed |-> <<>>]
NoReader ==
    [pc |-> "idle", impl |-> "none", rows |-> <<>>, cedulas |-> <<>>]

(***************************************************************************)
(* Result and processCedula.  Of the Result struct the model keeps the     *)
(* fields the orchestration reads or the claims speak of; the extracted    *)
(* name fields and ProcessingTime are opaque page data and are left out.   *)
(* page is what the browser and the solving service answer during one      *)
(* attempt.  kind is not a field of the Go struct: it tags the return      *)
(* statement of processCedula the Result came from, and is kept apart from *)
(* the Result in the state.                                                *)
(***************************************************************************)
ZeroResult == [Cedula |-> "", Estado |-> "", Attempts |-> 0, Error |-> <<>>]

ErrorResult(cedula, attempt, text) ==
    [Cedula |-> cedula, Estado |-> "Error", Attempts |-> attempt, Error |-> text]

processCedula(cedula, attempt, page) ==
    IF ~page.nav
    THEN [kind |-> "SelectorTimeoutError:numNit",
          result |-> ErrorResult(cedula, attempt, Sprintf("Error al navegar: ", page.err))]
    ELSE IF page.captchaVisible /\ ~page.shot
    THEN [kind |-> "CaptureError",
          result |-> ErrorResult(cedula, attempt, Sprintf("Error con captcha: ", page.err))]
    ELSE IF page.captchaVisible /\ ~solveCaptcha(page.submit, page.polls).ok
    THEN [kind |-> solveCaptcha(page.submit, page.polls).kind,
          result |-> ErrorResult(cedula, attempt,
                        Sprintf("Error resolviendo captcha: ",
                                solveCaptcha(page.submit, page.polls).err))]
    ELSE IF page.captchaVisible /\ ~page.fill
    THEN [kind |-> "SelectorTimeoutError:verifying",
          result |-> ErrorResult(cedula, attempt, Sprintf("Error con captcha: ", page.err))]
    ELSE IF ~page.click
    THEN [kind |-> "SelectorTimeoutError:btnBuscar",
          result |-> ErrorResult(cedula, attempt, Sprintf("Error en boton busqueda: ", page.err))]
    ELSE IF page.hasError
    THEN [kind |-> "SiteValidationError",
          result |-> ErrorResult(cedula, attempt, page.errorMessage)]
    ELSE IF ~page.extract
    THEN [kind |-> "ExtractionError",
          result |-> ErrorResult(cedula, attempt, Sprintf("Error extrayendo datos: ", page.err))]
    ELSE [kind |-> "Success",
          result |-> [Cedula |-> cedula, Estado |-> page.estado, Attempts |-> attempt,
                      Error |-> <<>>]]

(***************************************************************************)
(* What the browser and the solving service may answer in one attempt.     *)
(* Whether the challenge field is seen (captchaVisible) is the browser's   *)
(* answer to the Evaluate of line 281 and is taken as an input.  err is the *)
(* error of the chromedp.Run that fails.                                   *)
(***************************************************************************)
SubmitReplies == {Accepted, Rejected, HttpFail, ReadFail, BadJson}
PollScripts == { <<Solved>>, <<NotReady, Solved>>, <<Unsolvable>>,
                 <<HttpFail, NotReady, Unsolvable>>, <<>> }
SiteMessages == { <<>>, <<"El NIT no se encuentra inscrito en el RUT">>,
                  <<"El texto del captcha no coincide">> }

BasePage ==
    [nav |-> TRUE, captchaVisible |-> FALSE, shot |-> TRUE, submit |-> Accepted,
     polls |-> <<Solved>>, fill |-> TRUE, click |-> TRUE, hasError |-> FALSE,
     errorMessage |-> <<>>, extract |-> TRUE, estado |-> "REGISTRO ACTIVO",
     err |-> ErrDeadline]

\* the page of a tab whose context is cancelled: the first chromedp.Run fails
CanceledPage == [BasePage EXCEPT !.nav = FALSE, !.err = ErrCanceled]

Pages ==
    {BasePage, [BasePage EXCEPT !.nav = FALSE], [BasePage EXCEPT !.click = FALSE],
     [BasePage EXCEPT !.extract = FALSE]}
    \cup {[BasePage EXCEPT !.hasError = TRUE, !.errorMessage = m] : m \in SiteMessages}
    \cup {[BasePage EXCEPT !.captchaVisible = TRUE, !.shot = FALSE],
          [BasePage EXCEPT !.captchaVisible = TRUE, !.fill = FALSE]}
    \cup {[BasePage EXCEPT !.captchaVisible = TRUE, !.submit = s] : s \in SubmitReplies}
    \cup {[BasePage EXCEPT !.captchaVisible = TRUE, !.polls = p] : p \in PollScripts}

\* the page succeeds, or the service rejects the submit (a failure that is retried)
PoolPages ==
    {BasePage, [BasePage EXCEPT !.captchaVisible = TRUE, !.submit = Rejected]}

(***************************************************************************)
(* State of one ProcessCedulas run.                                        *)
(***************************************************************************)
VARIABLES
    cedulas,      \* the input slice
    config,       \* Scraper.config: Concurrency, MaxParallelBrowsers, MaxRetries
    results,      \* the results slice of ProcessCedulas
    resultsCh,    \* the buffer of the channel s.results
    closed,       \* close(s.results) has been executed
    returned,     \* ProcessCedulas has returned the slice
    sem,          \* permits of s.sem in use
    pc,           \* per worker: where its goroutine is
    pos,          \* per worker: index in its shard of the current cedula (from 1)
    attempt,      \* per worker: the attempt variable of the retry loop
    result,       \* per worker: the result variable of the retry loop
    kind,         \* per worker: return statement the last attempt ended at
    onlySolver,   \* per worker: every attempt on the current cedula so far
                  \* ended in a failure of solveCaptcha
    browserErr,   \* per worker: chromedp.Run("about:blank") returned an error
    handed,       \* per input index: the Results sent on s.results for it, in
                  \* the order sent (history: the program keeps no such record)
    cancelled,    \* rootCancel has been called (Scraper.Close)
    solver,       \* a run of a solver client on its own, step by step
    pool,         \* a run of scrapeDianCedulas of src/js/main.js
    seq,          \* a run of scrapeDianCedulas of src/main.js
    reader        \* a call of readCedulasFromExcel

vars == <<cedulas, config, results, resultsCh, closed, returned, sem, pc, pos,
          attempt, result, kind, onlySolver, browserErr, handed, cancelled, solver, pool,
          seq, reader>>

\* the variables of a run of ProcessCedulas
goVars == <<cedulas, config, results, resultsCh, closed, returned, sem, pc, pos,
            attempt, result, kind, onlySolver, browserErr, handed, cancelled>>

Min(a, b) == IF a < b THEN a ELSE b

\* all sequences over S of length at most n
SeqsUpTo(S, n) == UNION {[1..k -> S] : k \in 0..n}

\* The program only compares identifiers for equality (map key, line 132), so an
\* input is taken up to renaming: its identifiers first occur in the order of
\* Identifiers.  Repetitions are kept.
FirstOccurrenceOrder(s) ==
    \A i \in 1..Len(s) : \A k \in 1..Len(Identifiers) :
        s[i] = Identifiers[k] =>
            \A j \in 1..(k - 1) : \E h \in 1..(i - 1) : s[h] = Identifiers[j]

Inputs(n) ==
    {s \in SeqsUpTo({Identifiers[k] : k \in 1..Len(Identifiers)}, n) :
        FirstOccurrenceOrder(s)}

Configs(maxRetries) ==
    [Concurrency : 0..MaxConcurrency, MaxParallelBrowsers : 0..NumCPU,
     MaxRetries : 0..maxRetries]

\* lines 136-139
optimalBrowsers ==
    IF config.MaxParallelBrowsers > 0 /\ config.MaxParallelBrowsers < NumCPU
    THEN config.MaxParallelBrowsers ELSE NumCPU

\* a shard size that rounds down
cedulasPerBrowserFloor == Len(cedulas) \div optimalBrowsers

\* line 143 (integer division)
cedulasPerBrowser == (Len(cedulas) + optimalBrowsers - 1) \div optimalBrowsers

\* a start loop that starts a worker for every browser, empty shards included
WorkersForEveryBrowser == 0..(optimalBrowsers - 1)

\* the workers the loop of line 147 starts, by browserIdx
Workers == {i \in 0..(optimalBrowsers - 1) : i * cedulasPerBrowser < Len(cedulas)}

startIdx(i) == i * cedulasPerBrowser
endIdx(i) == Min((i + 1) * cedulasPerBrowser, Len(cedulas))

\* cedulas[startIdx:endIdx], the slice handed to worker i
Shard(i) == SubSeq(cedulas, startIdx(i) + 1, endIdx(i))

\* an index map that keeps the first occurrence
cedulaIndicesFirst(c) == CHOOSE i \in 1..Len(cedulas) :
                             /\ cedulas[i] = c
                             /\ \A j \in 1..Len(cedulas) : cedulas[j] = c => i <= j

\* cedulaIndices: the loop of lines 131-133 overwrites, so the last index wins.
\* Indices are 1-based here; Go's index is one less.
HasIndex(c) == \E i \in 1..Len(cedulas) : cedulas[i] = c
cedulaIndices(c) == CHOOSE i \in 1..Len(cedulas) :
                        /\ cedulas[i] = c
                        /\ \A j \in 1..Len(cedulas) : cedulas[j] = c => j <= i

\* capacity of s.results (line 119)
ChanCap == config.Concurrency * 2

\* the state when ProcessCedulas has started its goroutines and none has run
Started ==
    /\ results = [i \in 1..Len(cedulas) |-> ZeroResult]
    /\ resultsCh = <<>>
    /\ closed = FALSE
    /\ returned = FALSE
    /\ sem = 0
    /\ pc = [w \in Workers |-> "start"]
    /\ pos = [w \in Workers |-> 1]
    /\ attempt = [w \in Workers |-> 0]
    /\ result = [w \in Workers |-> ZeroResult]
    /\ kind = [w \in Workers |-> "none"]
    /\ onlySolver = [w \in Workers |-> TRUE]
    /\ browserErr = [w \in Workers |-> FALSE]
    /\ handed = [i \in 1..Len(cedulas) |-> <<>>]
    /\ cancelled = FALSE

Init ==
    /\ cedulas \in Inputs(MaxLen)
    /\ config \in Configs(MaxRetriesPool)
    /\ Started
    /\ solver = NoSolverRun
    /\ pool = NoPool
    /\ seq = NoSeq
    /\ reader = NoReader

(***************************************************************************)
(* The channel s.results.  A send completes when the buffer has room; on a *)
(* channel of capacity 0 it completes by handing the Result to the         *)
(* collector, which waits in its range loop between two iterations and     *)
(* then runs the iteration for it.                                         *)
(***************************************************************************)
CanSend == Len(resultsCh) < ChanCap \/ ChanCap = 0

\* a collector that fills the slice in the order the Results arrive
StoreInArrivalOrder(r) ==
    IF \E i \in 1..Len(results) : results[i] = ZeroResult
    THEN [results EXCEPT ![CHOOSE i \in 1..Len(results) :
                              /\ results[i] = ZeroResult
                              /\ \A j \in 1..(i - 1) : results[j] # ZeroResult] = r]
    ELSE results

\* the slice after lines 162-167 for the Result r
Store(r) ==
    IF HasIndex(r.Cedula) THEN [results EXCEPT ![cedulaIndices(r.Cedula)] = r]
    ELSE results

\* the channel and the slice after s.results <- r
Send(r) ==
    IF ChanCap = 0
    THEN /\ results' = Store(r)
         /\ resultsCh' = resultsCh
    ELSE /\ resultsCh' = Append(resultsCh, r)
         /\ results' = results

\* the input index (1-based) of the identifier worker w is at
InputIndex(w) == startIdx(w) + pos[w]

\* worker w sends r for the identifier it is at
SendFrom(w, r) ==
    /\ Send(r)
    /\ handed' = [handed EXCEPT ![InputIndex(w)] = Append(@, r)]

(***************************************************************************)
(* worker, lines 178-236.                                                  *)
(***************************************************************************)
\* a worker that goes on to its identifier loop although the browser failed
StartBrowserNoReturn(w) ==
    /\ pc[w] = "start"
    /\ \E ok \in BOOLEAN :
          /\ browserErr' = [browserErr EXCEPT ![w] = ~ok]
          /\ pc' = [pc EXCEPT ![w] = "acquire"]
    /\ UNCHANGED <<cedulas, config, results, resultsCh, closed, returned, sem, pos,
                   attempt, result, kind, onlySolver, handed, cancelled, solver, pool,
                   seq, reader>>

\* lines 184-209: start the browser; on error branch to the loop of line 198.
\* browserCtx derives from s.rootCtx, so the start fails once that is cancelled
StartBrowser(w) ==
    /\ pc[w] = "start"
    /\ \E ok \in (IF cancelled THEN {FALSE} ELSE BOOLEAN) :
          /\ browserErr' = [browserErr EXCEPT ![w] = ~ok]
          /\ pc' = [pc EXCEPT ![w] = IF ok THEN "acquire" ELSE "errsend"]
    /\ UNCHANGED <<cedulas, config, results, resultsCh, closed, returned, sem, pos,
                   attempt, result, kind, onlySolver, handed, cancelled, solver, pool,
                   seq, reader>>

\* the Result of lines 199-204
BrowserErrorResult(cedula) ==
    [Cedula |-> cedula, Estado |-> "Error", Attempts |-> 1,
     Error |-> Sprintf("Error iniciando navegador: ", ErrDeadline)]

\* lines 198-206: one iteration; after the last one the worker returns
SendBrowserError(w) ==
    /\ pc[w] = "errsend"
    /\ CanSend
    /\ SendFrom(w, BrowserErrorResult(Shard(w)[pos[w]]))
    /\ pos' = [pos EXCEPT ![w] = @ + 1]
    /\ pc' = [pc EXCEPT ![w] = IF pos[w] = Len(Shard(w)) THEN "done" ELSE "errsend"]
    /\ UNCHANGED <<cedulas, config, closed, returned, sem, attempt, result, kind,
                   onlySolver, browserErr, cancelled, solver, pool, seq, reader>>

\* a permit pool that admits one task too many
CanAcquireOneMore == sem <= config.Concurrency

\* semaphore.Weighted.Acquire(context.Background(), 1): blocks until a permit is
\* free; the context is never cancelled, so it returns no error (line 213)
CanAcquire == sem + 1 <= config.Concurrency

\* a retry loop whose body runs at least once (a do-while)
AcquireThenAttempt(w) ==
    /\ pc[w] = "acquire"
    /\ CanAcquire
    /\ sem' = sem + 1
    /\ attempt' = [attempt EXCEPT ![w] = 1]
    /\ pc' = [pc EXCEPT ![w] = "attempt"]
    /\ UNCHANGED <<cedulas, config, results, resultsCh, closed, returned, pos, result,
                   kind, onlySolver, browserErr, handed, cancelled, solver, pool, seq,
                   reader>>

\* lines 213-220: acquire, declare result, enter the retry loop
Acquire(w) ==
    /\ pc[w] = "acquire"
    /\ CanAcquire
    /\ sem' = sem + 1
    /\ attempt' = [attempt EXCEPT ![w] = 1]
    /\ pc' = [pc EXCEPT ![w] = IF 1 <= config.MaxRetries THEN "attempt" ELSE "send"]
    /\ UNCHANGED <<cedulas, config, results, resultsCh, closed, returned, pos, result,
                   kind, onlySolver, browserErr, handed, cancelled, solver, pool, seq,
                   reader>>

\* line 222: the loop is left when this holds
Terminal(r) == r.Error = <<>> \/ ~ContainsCaptcha(r.Error)

SolverKinds == {"CaptchaSubmitError", "CaptchaPollTimeout", "CaptchaUnsolvable"}

\* lines 221-224: one call of processCedula and the test on its Result, the
\* browser and the solving service answering as one of the pages of P; once
\* rootCancel has been called the tab context of line 245 is cancelled
AttemptOn(w, P) ==
    /\ pc[w] = "attempt"
    /\ \E page \in (IF cancelled THEN {CanceledPage} ELSE P) :
          LET out == processCedula(Shard(w)[pos[w]], attempt[w], page) IN
          /\ result' = [result EXCEPT ![w] = out.result]
          /\ kind' = [kind EXCEPT ![w] = out.kind]
          /\ onlySolver' = [onlySolver EXCEPT ![w] = @ /\ out.kind \in SolverKinds]
          /\ pc' = [pc EXCEPT ![w] = IF Terminal(out.result) THEN "send" ELSE "sleep"]
    /\ UNCHANGED <<cedulas, config, results, resultsCh, closed, returned, sem, pos,
                   attempt, browserErr, handed, cancelled, solver, pool, seq, reader>>

\* an attempt with every page behaviour of Pages
Attempt(w) == AttemptOn(w, Pages)

\* an attempt with the page behaviours of PoolPages only
AttemptPool(w) == AttemptOn(w, PoolPages)

\* a retry loop that stops one attempt short (attempt < MaxRetries)
RetryDelayOneShort(w) ==
    /\ pc[w] = "sleep"
    /\ attempt' = [attempt EXCEPT ![w] = @ + 1]
    /\ pc' = [pc EXCEPT ![w] = IF attempt[w] + 1 < config.MaxRetries THEN "attempt"
                                ELSE "send"]
    /\ UNCHANGED <<cedulas, config, results, resultsCh, closed, returned, sem, pos,
                   result, kind, onlySolver, browserErr, handed, cancelled, solver, pool,
                   seq, reader>>

\* a retry loop that does not advance the attempt number
RetryDelaySameNumber(w) ==
    /\ pc[w] = "sleep"
    /\ attempt' = attempt
    /\ pc' = [pc EXCEPT ![w] = IF attempt[w] + 1 <= config.MaxRetries THEN "attempt"
                                ELSE "send"]
    /\ UNCHANGED <<cedulas, config, results, resultsCh, closed, returned, sem, pos,
                   result, kind, onlySolver, browserErr, handed, cancelled, solver, pool,
                   seq, reader>>

\* lines 225-226 and the loop header: sleep RetryDelay, attempt++, test
RetryDelay(w) ==
    /\ pc[w] = "sleep"
    /\ attempt' = [attempt EXCEPT ![w] = @ + 1]
    /\ pc' = [pc EXCEPT ![w] = IF attempt[w] + 1 <= config.MaxRetries THEN "attempt"
                                ELSE "send"]
    /\ UNCHANGED <<cedulas, config, results, resultsCh, closed, returned, sem, pos,
                   result, kind, onlySolver, browserErr, handed, cancelled, solver, pool,
                   seq, reader>>

\* line 229
SendResult(w) ==
    /\ pc[w] = "send"
    /\ CanSend
    /\ SendFrom(w, result[w])
    /\ pc' = [pc EXCEPT ![w] = "release"]
    /\ UNCHANGED <<cedulas, config, closed, returned, sem, pos, attempt, result, kind,
                   onlySolver, browserErr, cancelled, solver, pool, seq, reader>>

\* a loop body that ends without sem.Release
ReleaseKeepsPermit(w) ==
    /\ pc[w] = "release"
    /\ sem' = sem
    /\ pos' = [pos EXCEPT ![w] = @ + 1]
    /\ attempt' = [attempt EXCEPT ![w] = 0]
    /\ result' = [result EXCEPT ![w] = ZeroResult]
    /\ kind' = [kind EXCEPT ![w] = "none"]
    /\ onlySolver' = [onlySolver EXCEPT ![w] = TRUE]
    /\ pc' = [pc EXCEPT ![w] = IF pos[w] = Len(Shard(w)) THEN "done" ELSE "acquire"]
    /\ UNCHANGED <<cedulas, config, results, resultsCh, closed, returned, browserErr,
                   handed, cancelled, solver, pool, seq, reader>>

\* line 232 and the loop header of line 211; the variables of the loop body
\* (result, attempt) go out of scope with the iteration
Release(w) ==
    /\ pc[w] = "release"
    /\ sem' = sem - 1
    /\ pos' = [pos EXCEPT ![w] = @ + 1]
    /\ attempt' = [attempt EXCEPT ![w] = 0]
    /\ result' = [result EXCEPT ![w] = ZeroResult]
    /\ kind' = [kind EXCEPT ![w] = "none"]
    /\ onlySolver' = [onlySolver EXCEPT ![w] = TRUE]
    /\ pc' = [pc EXCEPT ![w] = IF pos[w] = Len(Shard(w)) THEN "done" ELSE "acquire"]
    /\ UNCHANGED <<cedulas, config, results, resultsCh, closed, returned, browserErr,
                   handed, cancelled, solver, pool, seq, reader>>

(***************************************************************************)
(* The collector goroutine, lines 160-169, and the end of ProcessCedulas,  *)
(* lines 171-175.                                                          *)
(***************************************************************************)
\* a collector that has stopped receiving
CollectStalls ==
    /\ resultsCh # <<>>
    /\ UNCHANGED vars

\* lines 161-168: one iteration of the collector's loop, which receives a
\* Result, looks its index up and writes the slot
Collect ==
    /\ resultsCh # <<>>
    /\ results' = Store(Head(resultsCh))
    /\ resultsCh' = Tail(resultsCh)
    /\ UNCHANGED <<cedulas, config, closed, returned, sem, pc, pos, attempt, result,
                   kind, onlySolver, browserErr, handed, cancelled, solver, pool, seq,
                   reader>>

\* wg.Wait() is over when every worker has run its deferred wg.Done()
AllDone == \A w \in Workers : pc[w] = "done"

\* a ProcessCedulas that does not wait for its workers
ReturnWithoutWait ==
    /\ ~returned
    /\ closed' = TRUE
    /\ returned' = TRUE
    /\ UNCHANGED <<cedulas, config, results, resultsCh, sem, pc, pos, attempt, result,
                   kind, onlySolver, browserErr, handed, cancelled, solver, pool, seq,
                   reader>>

\* lines 171-175: wg.Wait(), close(s.results), return results
Return ==
    /\ ~returned
    /\ AllDone
    /\ closed' = TRUE
    /\ returned' = TRUE
    /\ UNCHANGED <<cedulas, config, results, resultsCh, sem, pc, pos, attempt, result,
                   kind, onlySolver, browserErr, handed, cancelled, solver, pool, seq,
                   reader>>

\* lines 472-475: Scraper.Close calls rootCancel; any goroutine of the caller may
\* do so at any time
Close ==
    /\ ~cancelled
    /\ cancelled' = TRUE
    /\ UNCHANGED <<cedulas, config, results, resultsCh, closed, returned, sem, pc, pos,
                   attempt, result, kind, onlySolver, browserErr, handed, solver, pool,
                   seq, reader>>

(***************************************************************************)
(* Two specifications of the same program.  Spec explores every input and  *)
(* configuration within the bounds, with several browsers, the page        *)
(* answering in one of two ways (success, or a failure that is retried).  *)
(* RetrySpec explores every page behaviour of Pages   *)
(* with a single browser (MaxParallelBrowsers = 1) and inputs of at most   *)
(* MaxLenRetry identifiers.                                                *)
(***************************************************************************)
Next ==
    \/ \E w \in Workers : StartBrowser(w)
    \/ \E w \in Workers : SendBrowserError(w)
    \/ \E w \in Workers : Acquire(w)
    \/ \E w \in Workers : AttemptPool(w)
    \/ \E w \in Workers : RetryDelay(w)
    \/ \E w \in Workers : SendResult(w)
    \/ \E w \in Workers : Release(w)
    \/ Collect
    \/ Return

Spec == Init /\ [][Next]_vars

InitRetry ==
    /\ cedulas \in Inputs(MaxLenRetry)
    /\ config \in Configs(MaxRetriesBound)
    /\ config.MaxParallelBrowsers = 1
    /\ Started
    /\ solver = NoSolverRun
    /\ pool = NoPool
    /\ seq = NoSeq
    /\ reader = NoReader

RetryNext ==
    \/ \E w \in Workers : StartBrowser(w)
    \/ \E w \in Workers : SendBrowserError(w)
    \/ \E w \in Workers : Acquire(w)
    \/ \E w \in Workers : Attempt(w)
    \/ \E w \in Workers : RetryDelay(w)
    \/ \E w \in Workers : SendResult(w)
    \/ \E w \in Workers : Release(w)
    \/ Collect
    \/ Return

RetrySpec == InitRetry /\ [][RetryNext]_vars

(***************************************************************************)
(* CancelSpec is Spec with a caller that may call Scraper.Close while      *)
(* ProcessCedulas runs.                                                    *)
(***************************************************************************)
CancelNext ==
    \/ Next
    \/ Close

CancelSpec == Init /\ [][CancelNext]_vars

(***************************************************************************)
(* ShardSpec explores longer inputs, to have shards of several and of      *)
(* unequal numbers of identifiers.  The sharding reads only len(cedulas),  *)
(* so one input is taken for each length; the page answers at the first    *)
(* attempt, Concurrency is 1 and MaxRetries is 1.                          *)
(***************************************************************************)
ShardInputs ==
    {[i \in 1..n |-> Identifiers[((i - 1) % Len(Identifiers)) + 1]] : n \in 0..MaxLenShard}

InitShard ==
    /\ cedulas \in ShardInputs
    /\ config \in Configs(1)
    /\ config.Concurrency = 1 /\ config.MaxRetries = 1
    /\ Started
    /\ solver = NoSolverRun
    /\ pool = NoPool
    /\ seq = NoSeq
    /\ reader = NoReader

\* an attempt the page answers with success
AttemptAnswered(w) == AttemptOn(w, {BasePage})

ShardNext ==
    \/ \E w \in Workers : StartBrowser(w)
    \/ \E w \in Workers : SendBrowserError(w)
    \/ \E w \in Workers : Acquire(w)
    \/ \E w \in Workers : AttemptAnswered(w)
    \/ \E w \in Workers : SendResult(w)
    \/ \E w \in Workers : Release(w)
    \/ Collect
    \/ Return

ShardSpec == InitShard /\ [][ShardNext]_vars

(***************************************************************************)
(* LiveSpec: the runs of Next with a single permit (Concurrency = 1, so a  *)
(* channel buffer of two), inputs of up to MaxLenLive identifiers and the  *)
(* scheduling the Go runtime gives: every goroutine that can take a step   *)
(* (a worker, the collector, the caller of ProcessCedulas) eventually      *)
(* takes one.  Every call of processCedula returns (AttemptOn is one       *)
(* step).                                                                  *)
(***************************************************************************)
InitLive ==
    /\ cedulas \in {c \in ShardInputs : Len(c) <= MaxLenLive}
    /\ config \in Configs(MaxRetriesPool)
    /\ config.Concurrency = 1
    /\ Started
    /\ solver = NoSolverRun
    /\ pool = NoPool
    /\ seq = NoSeq
    /\ reader = NoReader

\* a step of the goroutine of worker w
WorkerStep(w) ==
    /\ w \in Workers
    /\ \/ StartBrowser(w)
       \/ SendBrowserError(w)
       \/ Acquire(w)
       \/ AttemptPool(w)
       \/ RetryDelay(w)
       \/ SendResult(w)
       \/ Release(w)

Fairness ==
    /\ \A w \in 0..(NumCPU - 1) : WF_vars(WorkerStep(w))
    /\ WF_vars(Collect)
    /\ WF_vars(Return)

LiveSpec == InitLive /\ [][Next]_vars /\ Fairness

(***************************************************************************)
(* Part II: the solver clients, step by step.  Go solveCaptcha             *)
(* (src/unnamed/part_000) and the two solveTurnstileWith2Captcha           *)
(* (src/js/main.js, src/main.js) run on their own against a service whose  *)
(* replies are chosen freely.  Fields of solver:                           *)
(*   client    which client runs                                           *)
(*   pc        "submit", "poll" or "done"                                  *)
(*   attempts  the loop counter (i in Go, attempts in JS)                  *)
(*   status    the job's status after the last reply the client parsed     *)
(*   ack       <<reply>> to the submit request, once made                  *)
(*   outcome   what the client returned: "token", "error" (Go), "null" (JS)*)
(*   err       where a failure came from                                   *)
(*   submits, polls, lost   requests to in.php, to res.php, and those of   *)
(*             the latter that failed in transport (history)               *)
(***************************************************************************)
Clients == {"solveCaptcha", "js/main.js", "main.js"}

\* maxAttempts of the two JS clients
MaxAttemptsJs == 20
MaxAttemptsMain == 30

MaxAttempts(client) ==
    IF client = "js/main.js" THEN MaxAttemptsJs
    ELSE IF client = "main.js" THEN MaxAttemptsMain
    ELSE MaxPollAttempts

\* a reply with status 0 that is neither of the two sentinels
OtherError == [kind |-> "json", Status |-> 0, Request |-> "ERROR_WRONG_CAPTCHA_ID"]

PollReplies == {NotReady, Solved, Unsolvable, OtherError, HttpFail, ReadFail, BadJson}

\* the client has returned
Returned(outcome, err) == [solver EXCEPT !.pc = "done", !.outcome = outcome, !.err = err]

\* a Go client that takes every parsed reply to the submit as an acceptance
GoAfterSubmitUnchecked(r) ==
    IF r.kind # "json"
    THEN [Returned("error", "CaptchaSubmitError") EXCEPT !.ack = <<r>>, !.submits = @ + 1]
    ELSE [solver EXCEPT !.pc = "poll", !.status = "Submitted", !.ack = <<r>>,
                        !.submits = @ + 1]

\* lines 411-433: solver after the reply r to the POST
GoAfterSubmit(r) ==
    IF r.kind # "json" \/ r.Status # 1
    THEN [Returned("error", "CaptchaSubmitError") EXCEPT !.ack = <<r>>, !.submits = @ + 1]
    ELSE [solver EXCEPT !.pc = "poll", !.status = "Submitted", !.ack = <<r>>,
                        !.submits = @ + 1]

\* one more GET to res.php has been made and answered by r
Polled(r) ==
    [solver EXCEPT !.attempts = @ + 1, !.polls = @ + 1,
                   !.lost = IF r.kind = "transport" THEN @ + 1 ELSE @]

\* the status a parsed reply to a poll puts the job in
StatusOf(r) ==
    IF r.Status = 1 THEN "Solved"
    ELSE IF r.Request = "CAPCHA_NOT_READY" THEN "NotReady"
    ELSE IF r.Request = "ERROR_CAPTCHA_UNSOLVABLE" THEN "Unsolvable"
    ELSE "Error"

\* a Go client that goes on polling after an error reply
GoAfterPollLenient(r) ==
    IF r.kind # "json" THEN Polled(r)
    ELSE IF r.Status = 1
    THEN [Polled(r) EXCEPT !.pc = "done", !.status = "Solved", !.outcome = "token"]
    ELSE [Polled(r) EXCEPT !.status = StatusOf(r)]

\* lines 437-466: solver after one iteration of the loop, the GET answered by r
GoAfterPoll(r) ==
    IF r.kind # "json" THEN Polled(r)
    ELSE IF r.Status = 1
    THEN [Polled(r) EXCEPT !.pc = "done", !.status = "Solved", !.outcome = "token"]
    ELSE IF r.Request # "CAPCHA_NOT_READY"
    THEN [Polled(r) EXCEPT !.pc = "done", !.status = StatusOf(r), !.outcome = "error",
                           !.err = "CaptchaUnsolvable"]
    ELSE [Polled(r) EXCEPT !.status = "NotReady"]

SolveCaptchaSubmit ==
    /\ solver.client = "solveCaptcha" /\ solver.pc = "submit"
    /\ \E r \in SubmitReplies : solver' = GoAfterSubmit(r)
    /\ UNCHANGED <<goVars, pool, seq, reader>>

SolveCaptchaPoll ==
    /\ solver.client = "solveCaptcha" /\ solver.pc = "poll"
    /\ solver.attempts < MaxPollAttempts
    /\ \E r \in PollReplies : solver' = GoAfterPoll(r)
    /\ UNCHANGED <<goVars, pool, seq, reader>>

\* a loop that gives up one iteration early
SolveCaptchaTimeoutEarly ==
    /\ solver.client = "solveCaptcha" /\ solver.pc = "poll"
    /\ solver.attempts >= MaxPollAttempts - 1
    /\ solver' = Returned("error", "CaptchaPollTimeout")
    /\ UNCHANGED <<goVars, pool, seq, reader>>

\* lines 436 and 469: the loop ends without a result
SolveCaptchaTimeout ==
    /\ solver.client = "solveCaptcha" /\ solver.pc = "poll"
    /\ solver.attempts >= MaxPollAttempts
    /\ solver' = Returned("error", "CaptchaPollTimeout")
    /\ UNCHANGED <<goVars, pool, seq, reader>>

\* src/js/main.js lines 26-43 and 88-91, src/main.js lines 461-482 and 528-531
\* (the same code): a failed request throws, and so does a reply whose status is
\* not 1; the outer catch returns null
TurnstileAfterSubmit(r) ==
    IF r.kind # "json" \/ r.Status # 1
    THEN [Returned("null", "submit") EXCEPT !.ack = <<r>>, !.submits = @ + 1]
    ELSE [solver EXCEPT !.pc = "poll", !.status = "Submitted", !.ack = <<r>>,
                        !.submits = @ + 1]

\* src/js/main.js lines 23 and 63: initialDelay and the cap of the backoff
InitialDelayJs == 1000
MaxDelayJs == 2000

\* src/js/main.js lines 49-56: the loop slept delay, then made its request
JsPolled(r) == [Polled(r) EXCEPT !.waited = solver.delay]

\* a backoff that doubles without a cap
JsAfterPollUncapped(r) ==
    IF r.kind # "json" THEN [JsPolled(r) EXCEPT !.delay = 2 * @]
    ELSE IF r.Status = 1
    THEN [JsPolled(r) EXCEPT !.pc = "done", !.status = "Solved", !.outcome = "token"]
    ELSE IF r.Request = "CAPCHA_NOT_READY"
    THEN [JsPolled(r) EXCEPT !.status = "NotReady", !.delay = 2 * @]
    ELSE IF r.Request = "ERROR_CAPTCHA_UNSOLVABLE"
    THEN [JsPolled(r) EXCEPT !.pc = "done", !.status = "Unsolvable", !.outcome = "null",
                            !.err = "unsolvable"]
    ELSE [JsPolled(r) EXCEPT !.status = StatusOf(r), !.delay = 2 * @]

\* src/js/main.js lines 50-81: a failed request and a reply that is no object
\* end in the inner catch, which goes on with the loop; every branch that goes
\* on with the loop doubles delay up to the cap
JsAfterPoll(r) ==
    IF r.kind # "json" THEN [JsPolled(r) EXCEPT !.delay = Min(2 * @, MaxDelayJs)]
    ELSE IF r.Status = 1
    THEN [JsPolled(r) EXCEPT !.pc = "done", !.status = "Solved", !.outcome = "token"]
    ELSE IF r.Request = "CAPCHA_NOT_READY"
    THEN [JsPolled(r) EXCEPT !.status = "NotReady", !.delay = Min(2 * @, MaxDelayJs)]
    ELSE IF r.Request = "ERROR_CAPTCHA_UNSOLVABLE"
    THEN [JsPolled(r) EXCEPT !.pc = "done", !.status = "Unsolvable", !.outcome = "null",
                            !.err = "unsolvable"]
    ELSE [JsPolled(r) EXCEPT !.status = StatusOf(r), !.delay = Min(2 * @, MaxDelayJs)]

\* src/main.js lines 489-520: the throw of line 513 is caught by the catch of
\* line 515 inside the loop, which goes on
MainAfterPoll(r) ==
    IF r.kind # "json" THEN Polled(r)
    ELSE IF r.Status = 1
    THEN [Polled(r) EXCEPT !.pc = "done", !.status = "Solved", !.outcome = "token"]
    ELSE [Polled(r) EXCEPT !.status = StatusOf(r)]

solveTurnstileSubmitJs ==
    /\ solver.client = "js/main.js" /\ solver.pc = "submit"
    /\ \E r \in SubmitReplies :
          solver' = IF TurnstileAfterSubmit(r).pc = "poll"
                    THEN [TurnstileAfterSubmit(r) EXCEPT !.delay = InitialDelayJs]
                    ELSE TurnstileAfterSubmit(r)
    /\ UNCHANGED <<goVars, pool, seq, reader>>

solveTurnstilePollJs ==
    /\ solver.client = "js/main.js" /\ solver.pc = "poll"
    /\ solver.attempts < MaxAttemptsJs
    /\ \E r \in PollReplies : solver' = JsAfterPoll(r)
    /\ UNCHANGED <<goVars, pool, seq, reader>>

\* src/js/main.js lines 49 and 84-90: the loop ends with token null
solveTurnstileTimeoutJs ==
    /\ solver.client = "js/main.js" /\ solver.pc = "poll"
    /\ solver.attempts >= MaxAttemptsJs
    /\ solver' = Returned("null", "timeout")
    /\ UNCHANGED <<goVars, pool, seq, reader>>

solveTurnstileSubmitMain ==
    /\ solver.client = "main.js" /\ solver.pc = "submit"
    /\ \E r \in SubmitReplies : solver' = TurnstileAfterSubmit(r)
    /\ UNCHANGED <<goVars, pool, seq, reader>>

solveTurnstilePollMain ==
    /\ solver.client = "main.js" /\ solver.pc = "poll"
    /\ solver.attempts < MaxAttemptsMain
    /\ \E r \in PollReplies : solver' = MainAfterPoll(r)
    /\ UNCHANGED <<goVars, pool, seq, reader>>

\* src/main.js lines 488 and 523-530: the loop ends with token null
solveTurnstileTimeoutMain ==
    /\ solver.client = "main.js" /\ solver.pc = "poll"
    /\ solver.attempts >= MaxAttemptsMain
    /\ solver' = Returned("null", "timeout")
    /\ UNCHANGED <<goVars, pool, seq, reader>>

\* no run of ProcessCedulas: an empty input and no worker
NoRun ==
    /\ cedulas = <<>>
    /\ config = [Concurrency |-> 0, MaxParallelBrowsers |-> 0, MaxRetries |-> 0]
    /\ Started

InitSolver ==
    /\ NoRun
    /\ solver \in {[NoSolverRun EXCEPT !.client = c, !.pc = "submit"] : c \in Clients}
    /\ pool = NoPool
    /\ seq = NoSeq
    /\ reader = NoReader

SolverNext ==
    \/ SolveCaptchaSubmit
    \/ SolveCaptchaPoll
    \/ SolveCaptchaTimeout
    \/ solveTurnstileSubmitJs
    \/ solveTurnstilePollJs
    \/ solveTurnstileTimeoutJs
    \/ solveTurnstileSubmitMain
    \/ solveTurnstilePollMain
    \/ solveTurnstileTimeoutMain

SolverSpec == InitSolver /\ [][SolverNext]_vars

(***************************************************************************)
(* Part III: scrapeDianCedulas and limitConcurrency of src/js/main.js.     *)
(* JavaScript runs one callback at a time, so each action is one callback  *)
(* run to its end.  Fields of pool:                                        *)
(*   pc         "start" (line 308 reached), "await" (line 310), "done"     *)
(*   cedulas, limit   the arguments cedulas and concurrencyLimit           *)
(*   tasks      per task "new", "running", "fulfilled" or "rejected"       *)
(*   results, running, taskIndex   the locals of limitConcurrency          *)
(*   promise    the promise limitConcurrency returned                      *)
(*   timer      the setTimeout of line 313: "armed" or "fired"             *)
(*   race       how Promise.race settled: "resolved", "rejected" (by the   *)
(*              pool's promise) or "timeout"                               *)
(*   written    the two result files have been written                     *)
(*   returned   "no", "resultados" (the results array) or "undefined"      *)
(* and three histories the program keeps no record of:                     *)
(*   starts     per task, how many times it has been called                *)
(*   values     per task, the value it fulfilled with                      *)
(*   settled    the indices of the tasks in the order they settled         *)
(***************************************************************************)
\* an array slot never assigned
Undefined == [cedula |-> "", estado |-> "undefined"]

\* what one call of the JS processCedula meets: whether browser.newPage and
\* optimizeRequestInterception (lines 168-169) succeed, how the try block ends
\* (data extracted, the solver gave no token, or something threw), and whether
\* page.close (line 244) succeeds
JsPages == [opened : BOOLEAN, body : {"data", "unsolved", "throws"}, closed : BOOLEAN]

TaskRejected == [settled |-> "rejected", value |-> Undefined]

\* lines 166-249: the promise of processCedula(cedula, ...) on such a page.  An
\* exception before the try or in the finally leaves the function; one inside
\* the try is turned into an error record by the catch of line 240.
processCedulaJs(cedula, page) ==
    IF ~page.opened THEN TaskRejected
    ELSE IF ~page.closed THEN TaskRejected
    ELSE [settled |-> "fulfilled",
          value |-> [cedula |-> cedula,
                     estado |-> CASE page.body = "data" -> "REGISTRO ACTIVO"
                                  [] page.body = "unsolved" -> "Error: Captcha unsolved"
                                  [] OTHER -> "Error: Navigation timeout"]]

\* what processCedula fulfils with: the extracted data or an error record
Fulfilments(cedula) ==
    {processCedulaJs(cedula, page).value :
        page \in {q \in JsPages : processCedulaJs(cedula, q).settled = "fulfilled"}}

\* processCedula can reject
CanReject(cedula) ==
    \E page \in JsPages : processCedulaJs(cedula, page).settled = "rejected"

\* results.push(v): the array in the order of completion
SetAtEnd(arr, i, v) == Append(arr, v)

\* results[i] = v on a JS array (i from 1 here): slots skipped over are holes
SetAt(arr, i, v) ==
    IF i <= Len(arr) THEN [arr EXCEPT ![i] = v]
    ELSE arr \o [k \in 1..(i - 1 - Len(arr)) |-> Undefined] \o <<v>>

\* a while loop that admits one task more (running <= limit)
StartableOneMore(p) ==
    IF p.running <= p.limit /\ p.taskIndex < Len(p.tasks)
    THEN Min(p.limit + 1 - p.running, Len(p.tasks) - p.taskIndex) ELSE 0

\* the number of tasks the while loop of line 261 starts
Startable(p) ==
    IF p.running < p.limit /\ p.taskIndex < Len(p.tasks)
    THEN Min(p.limit - p.running, Len(p.tasks) - p.taskIndex) ELSE 0

\* a runTask that resolves as soon as nothing is running
runTaskResolvesWhenIdle(p) ==
    IF p.running = 0 /\ Startable(p) = 0
    THEN [p EXCEPT !.promise = IF @ = "pending" THEN "resolved" ELSE @]
    ELSE [p EXCEPT !.running = @ + Startable(p),
                   !.taskIndex = @ + Startable(p),
                   !.tasks = [i \in 1..Len(p.tasks) |->
                                 IF i > p.taskIndex /\ i <= p.taskIndex + Startable(p)
                                 THEN "running" ELSE p.tasks[i]],
                   !.starts = [i \in 1..Len(p.tasks) |->
                                  IF i > p.taskIndex /\ i <= p.taskIndex + Startable(p)
                                  THEN p.starts[i] + 1 ELSE p.starts[i]]]

\* lines 256-275: runTask() on the pool p
runTask(p) ==
    IF p.taskIndex >= Len(p.tasks) /\ p.running = 0
    THEN [p EXCEPT !.promise = IF @ = "pending" THEN "resolved" ELSE @]
    ELSE [p EXCEPT !.running = @ + Startable(p),
                   !.taskIndex = @ + Startable(p),
                   !.tasks = [i \in 1..Len(p.tasks) |->
                                 IF i > p.taskIndex /\ i <= p.taskIndex + Startable(p)
                                 THEN "running" ELSE p.tasks[i]],
                   !.starts = [i \in 1..Len(p.tasks) |->
                                  IF i > p.taskIndex /\ i <= p.taskIndex + Startable(p)
                                  THEN p.starts[i] + 1 ELSE p.starts[i]]]

\* Promise.race of lines 310-315 settles with the first of its two promises
Raced(p) ==
    [p EXCEPT !.race = IF @ # "pending" THEN @
                       ELSE IF p.promise = "resolved" THEN "resolved"
                       ELSE IF p.promise = "rejected" THEN "rejected"
                       ELSE IF p.timer = "fired" THEN "timeout"
                       ELSE "pending"]

\* lines 309-315: build the tasks, call limitConcurrency, arm the timer, await
ScrapeStart ==
    /\ pool.pc = "start"
    /\ pool' = Raced(runTask([pool EXCEPT
                    !.pc = "await", !.timer = "armed",
                    !.tasks = [i \in 1..Len(pool.cedulas) |-> "new"],
                    !.starts = [i \in 1..Len(pool.cedulas) |-> 0],
                    !.values = [i \in 1..Len(pool.cedulas) |-> Undefined]]))
    /\ UNCHANGED <<goVars, solver, seq, reader>>

\* lines 266-270: task i fulfils and its then-callback runs
TaskFulfil(i) ==
    /\ pool.tasks[i] = "running"
    /\ \E v \in Fulfilments(pool.cedulas[i]) :
          pool' = Raced(runTask([pool EXCEPT !.tasks[i] = "fulfilled",
                                             !.results = SetAt(@, i, v),
                                             !.running = @ - 1,
                                             !.values[i] = v,
                                             !.settled = Append(@, i)]))
    /\ UNCHANGED <<goVars, solver, seq, reader>>

\* a catch-callback that frees the slot and goes on scheduling
TaskRejectFreesSlot(i) ==
    /\ pool.tasks[i] = "running"
    /\ CanReject(pool.cedulas[i])
    /\ pool' = Raced(runTask([pool EXCEPT
                    !.tasks[i] = "rejected",
                    !.settled = Append(@, i),
                    !.running = @ - 1,
                    !.promise = IF @ = "pending" THEN "rejected" ELSE @]))
    /\ UNCHANGED <<goVars, solver, seq, reader>>

\* lines 271-273: task i rejects (browser.newPage of line 168 and page.close of
\* line 244 are outside the try) and its catch-callback runs
TaskReject(i) ==
    /\ pool.tasks[i] = "running"
    /\ CanReject(pool.cedulas[i])
    /\ pool' = Raced([pool EXCEPT !.tasks[i] = "rejected",
                                  !.settled = Append(@, i),
                                  !.promise = IF @ = "pending" THEN "rejected" ELSE @])
    /\ UNCHANGED <<goVars, solver, seq, reader>>

\* line 313: the global timeout fires
TimerFire ==
    /\ pool.timer = "armed"
    /\ pool' = Raced([pool EXCEPT !.timer = "fired"])
    /\ UNCHANGED <<goVars, solver, seq, reader>>

\* lines 317-331: after the await, write and return the results, or log the
\* error in the catch and return nothing
ScrapeResume ==
    /\ pool.pc = "await" /\ pool.race # "pending"
    /\ pool' = IF pool.race = "resolved"
               THEN [pool EXCEPT !.pc = "done", !.written = TRUE, !.returned = "resultados"]
               ELSE [pool EXCEPT !.pc = "done", !.returned = "undefined"]
    /\ UNCHANGED <<goVars, solver, seq, reader>>

InitPool ==
    /\ NoRun
    /\ solver = NoSolverRun
    /\ seq = NoSeq
    /\ reader = NoReader
    /\ pool \in {[NoPool EXCEPT !.pc = "start", !.cedulas = c, !.limit = l] :
                    c \in Inputs(MaxTasks), l \in (-1)..MaxLimit}

PoolNext ==
    \/ ScrapeStart
    \/ \E i \in 1..Len(pool.tasks) : TaskFulfil(i)
    \/ \E i \in 1..Len(pool.tasks) : TaskReject(i)
    \/ TimerFire
    \/ ScrapeResume

PoolSpec == InitPool /\ [][PoolNext]_vars

(***************************************************************************)
(* Part IV: scrapeDianCedulas of src/main.js, which takes the identifiers  *)
(* one after the other on a single page.  Fields of seq:                   *)
(*   pc          "loop" (the for of line 97) or "done" (returned)          *)
(*   cedulas, takeScreenshots   the arguments                              *)
(*   i           the loop variable                                         *)
(*   resultados  the array of that name                                    *)
(*   pushed      per finished iteration, how many entries it appended      *)
(*               (history: the program keeps no such record)               *)
(***************************************************************************)
\* the ways through one loop body (lines 98-431):
\*   "throws"       a step outside the inner try throws: catch of line 407
\*   "noToken"      the solver returned no token: continue of line 215
\*   "noResults"    no result selector appeared: push and continue, 296-305
\*   "extractError" data.error is set: push of line 357
\*   "success"      push of line 367
\*   "navError"     a step of the inner try throws before any push: line 394
\*   "shotThrows"   the screenshot of line 373, after the push of line 367,
\*                  throws: catch of line 379 pushes again at line 394
SeqPaths(takeScreenshots) ==
    {"throws", "noToken", "noResults", "extractError", "success", "navError"}
        \cup (IF takeScreenshots THEN {"shotThrows"} ELSE {})

SeqEntry(cedula, estado) == [cedula |-> cedula, estado |-> estado]

\* the entries one loop body appends to resultados
Pushes(cedula, path) ==
    CASE path = "throws" -> <<SeqEntry(cedula, "Error: Navigation timeout")>>
      [] path = "noToken" -> <<>>
      [] path = "noResults" -> <<SeqEntry(cedula, "Error: Could not find results on page")>>
      [] path = "extractError" -> <<SeqEntry(cedula, "Error: Error extracting data")>>
      [] path = "success" -> <<SeqEntry(cedula, "REGISTRO ACTIVO")>>
      [] path = "navError" -> <<SeqEntry(cedula, "Error: Navigation failed")>>
      [] OTHER -> <<SeqEntry(cedula, "REGISTRO ACTIVO"),
                    SeqEntry(cedula, "Error: Navigation failed")>>

\* lines 97-432: one iteration of the for loop
SeqIteration ==
    /\ seq.pc = "loop" /\ seq.i < Len(seq.cedulas)
    /\ \E path \in SeqPaths(seq.takeScreenshots) :
          LET new == Pushes(seq.cedulas[seq.i + 1], path) IN
             seq' = [seq EXCEPT !.i = @ + 1,
                                !.resultados = @ \o new,
                                !.pushed = Append(@, Len(new))]
    /\ UNCHANGED <<goVars, solver, pool, reader>>

\* lines 435-450: the loop is over; write the files and return resultados
SeqFinish ==
    /\ seq.pc = "loop" /\ seq.i = Len(seq.cedulas)
    /\ seq' = [seq EXCEPT !.pc = "done"]
    /\ UNCHANGED <<goVars, solver, pool, reader>>

InitSeq ==
    /\ NoRun
    /\ solver = NoSolverRun
    /\ pool = NoPool
    /\ reader = NoReader
    /\ seq \in {[NoSeq EXCEPT !.pc = "loop", !.cedulas = c, !.takeScreenshots = t] :
                   c \in Inputs(MaxLenSeq), t \in BOOLEAN}

SeqNext ==
    \/ SeqIteration
    \/ SeqFinish

SeqSpec == InitSeq /\ [][SeqNext]_vars

(***************************************************************************)
(* Part V: readCedulasFromExcel, in Go (src/unnamed/part_000) and in JS    *)
(* (src/js/main.js).  A sheet is the sequence of rows the library returns, *)
(* a row a sequence of cells, a cell a sequence of characters.  Fields of  *)
(* reader: pc ("call", "returned"), impl ("go", "js"), rows (the sheet)    *)
(* and cedulas (the returned sequence).                                    *)
(***************************************************************************)
\* the characters of a cell: white space and one other character
Chars == {" ", "7"}

Cells == SeqsUpTo(Chars, MaxCellLen)

\* a row is empty, or has a first cell alone or followed by a second column
Rows == {<<>>} \cup {<<c>> : c \in Cells} \cup {<<c, <<"7">>>> : c \in Cells}

Sheets == SeqsUpTo(Rows, MaxRows)

RECURSIVE TrimLeft(_)
TrimLeft(s) == IF s # <<>> /\ Head(s) = " " THEN TrimLeft(Tail(s)) ELSE s

RECURSIVE TrimRight(_)
TrimRight(s) ==
    IF s # <<>> /\ s[Len(s)] = " " THEN TrimRight(SubSeq(s, 1, Len(s) - 1)) ELSE s

\* strings.TrimSpace and String.prototype.trim
TrimSpace(s) == TrimRight(TrimLeft(s))

\* part_000 lines 538-549: the body of the range loop for the row at index i
\* (from 1 here, so the header row of line 539 is i = 1)
GoRow(rows, i) ==
    IF i = 1 THEN <<>>
    ELSE IF Len(rows[i]) > 0 /\ TrimSpace(rows[i][1]) # <<>>
         THEN <<TrimSpace(rows[i][1])>>
         ELSE <<>>

RECURSIVE GoRowsFrom(_, _)
GoRowsFrom(rows, i) ==
    IF i > Len(rows) THEN <<>> ELSE GoRow(rows, i) \o GoRowsFrom(rows, i + 1)

\* part_000 lines 524-552, on the rows GetRows returned
readCedulasFromExcelGo(rows) == GoRowsFrom(rows, 1)

\* js/main.js line 99: String(row[0] || "").trim()
JsCell(row) == TrimSpace(IF Len(row) > 0 /\ row[1] # <<>> THEN row[1] ELSE <<>>)

\* js/main.js lines 94-100, on the rows sheet_to_json returned: map, then filter
readCedulasFromExcelJs(rows) ==
    SelectSeq([i \in 1..Len(rows) |-> JsCell(rows[i])], LAMBDA c : c # <<>>)

ReadGo ==
    /\ reader.pc = "call" /\ reader.impl = "go"
    /\ reader' = [reader EXCEPT !.pc = "returned",
                                !.cedulas = readCedulasFromExcelGo(reader.rows)]
    /\ UNCHANGED <<goVars, solver, pool, seq>>

ReadJs ==
    /\ reader.pc = "call" /\ reader.impl = "js"
    /\ reader' = [reader EXCEPT !.pc = "returned",
                                !.cedulas = readCedulasFromExcelJs(reader.rows)]
    /\ UNCHANGED <<goVars, solver, pool, seq>>

InitReader ==
    /\ NoRun
    /\ solver = NoSolverRun
    /\ pool = NoPool
    /\ seq = NoSeq
    /\ reader \in {[NoReader EXCEPT !.pc = "call", !.impl = m, !.rows = t] :
                      m \in {"go", "js"}, t \in Sheets}

ReaderNext ==
    \/ ReadGo
    \/ ReadJs

ReaderSpec == InitReader /\ [][ReaderNext]_vars

(***************************************************************************)
(* Properties of the Go program.                                           *)
(***************************************************************************)
Range(f) == {f[x] : x \in DOMAIN f}

\* worker w is between sem.Acquire and sem.Release
InProgress(w) == pc[w] \in {"attempt", "sleep", "send", "release"}

\* the identifier worker w is at
Current(w) == Shard(w)[pos[w]]

\* worker w sleeps the retry delay and another attempt follows it
WillRetry(w) == pc[w] = "sleep" /\ attempt[w] < config.MaxRetries

\* C1: at the moment ProcessCedulas returns, every slot results[i] holds a
\* recorded Result whose Cedula is cedulas[i]; no slot is left zero-valued.
\* Stated as the claim has it; the collector goroutine is not waited for, so
\* it fails.
C1_FullResultsAtReturn ==
    returned => \A i \in 1..Len(cedulas) :
                    results[i] # ZeroResult /\ results[i].Cedula = cedulas[i]

\* C2: an attempt is followed by another attempt only if it ended in a failure
\* of the solving service (submit or poll failed, or timed out); success and
\* every other failure are terminal whatever the error text.  Stated as the
\* claim has it; the test of line 222 is on the text, so it fails.
C2_RetryOnlyAfterSolverFailure ==
    \A w \in Workers : WillRetry(w) => kind[w] \in SolverKinds

\* C3: in every state the number of identifiers in progress (between
\* sem.Acquire and sem.Release) over all workers is at most Config.Concurrency.
C3_AdmissionBound ==
    Cardinality({w \in Workers : InProgress(w)}) <= config.Concurrency

\* C3 witness: every permit is in use and a further worker waits for one
C3_PermitsExhausted ==
    /\ config.Concurrency >= 1
    /\ Cardinality({w \in Workers : InProgress(w)}) = config.Concurrency
    /\ \E w \in Workers : pc[w] = "acquire"

\* C4, for a worker whose browser failed to start: it never holds a permit and
\* never makes an attempt; for each identifier of its shard it passed it handed
\* over exactly the Error Result of lines 199-204, for the others nothing yet;
\* and it ends only after its whole shard
C4_FailedWorker(w) ==
    /\ pc[w] \in {"errsend", "done"}
    /\ attempt[w] = 0
    /\ result[w] = ZeroResult
    /\ pc[w] = "done" <=> startIdx(w) + pos[w] = endIdx(w) + 1
    /\ \A i \in (startIdx(w) + 1)..endIdx(w) :
          IF i < startIdx(w) + pos[w]
          THEN handed[i] = <<BrowserErrorResult(cedulas[i])>>
          ELSE handed[i] = <<>>

\* C4, for a worker whose browser started, whatever the other workers do: it
\* ends only after its whole shard, it handed over exactly one Result for each
\* identifier it passed, and (MaxRetries >= 1) that Result comes from an attempt
\* on that identifier
C4_OtherWorker(w) ==
    /\ pc[w] = "done" <=> startIdx(w) + pos[w] = endIdx(w) + 1
    /\ \A i \in (startIdx(w) + 1)..endIdx(w) :
          IF i < startIdx(w) + pos[w] \/ (i = startIdx(w) + pos[w] /\ pc[w] = "release")
          THEN /\ Len(handed[i]) = 1
               /\ config.MaxRetries >= 1 =>
                     /\ handed[i][1].Cedula = cedulas[i]
                     /\ handed[i][1].Attempts \in 1..config.MaxRetries
                     /\ handed[i][1].Estado # ""
                     /\ handed[i][1] # BrowserErrorResult(cedulas[i])
          ELSE handed[i] = <<>>

\* C4: if a worker's browser fails to start, every identifier of its shard is
\* handed to the collector as an Error Result (Attempts 1) without a permit and
\* without any attempt, and every identifier of every other shard is still
\* processed to a Result by its own worker.
C4_ShardFailureIsolation ==
    /\ \A w \in Workers : IF browserErr[w] THEN C4_FailedWorker(w) ELSE C4_OtherWorker(w)
    /\ sem = Cardinality({w \in Workers : ~browserErr[w] /\ InProgress(w)})

\* C4 witness: one browser failed and its shard is recorded as errors, another
\* worker processed its shard, and both Results are in the slice
C4_OneShardFailedOneProcessed ==
    /\ Len(cedulas) = 2 /\ cedulas[1] # cedulas[2]
    /\ \E w, v \in Workers :
          /\ browserErr[w] /\ ~browserErr[v]
          /\ pc[w] = "done" /\ pc[v] = "done"
          /\ results[cedulaIndices(Shard(w)[1])] = BrowserErrorResult(Shard(w)[1])
          /\ results[cedulaIndices(Shard(v)[1])].Estado = "REGISTRO ACTIVO"

\* C5: the returned slice is as long as the input, and every Result stored in it
\* sits at an index whose input identifier is the Result's Cedula: the index the
\* map keeps for that identifier.
C5_StoredAtOwnIndex ==
    /\ DOMAIN results = 1..Len(cedulas)
    /\ \A i \in 1..Len(cedulas) : results[i] # ZeroResult =>
          /\ results[i].Cedula = cedulas[i]
          /\ i = cedulaIndices(results[i].Cedula)

\* C5 witness: the second identifier's Result is stored before the first one's,
\* which comes in later
C5_StoredOutOfOrder ==
    /\ Len(cedulas) = 2 /\ cedulas[1] # cedulas[2]
    /\ results[1] = ZeroResult /\ results[2] # ZeroResult
    /\ resultsCh # <<>> /\ Head(resultsCh).Cedula = cedulas[1]

\* C6: every Result sent to the collector has Attempts <= MaxRetries, for every
\* MaxRetries, the Results of a failed browser start included.  Stated as the
\* claim has it; line 203 sets Attempts to 1 whatever MaxRetries is, so it fails.
C6_AttemptsWithinMaxRetries ==
    \A i \in 1..Len(cedulas) : \A r \in Range(handed[i]) : r.Attempts <= config.MaxRetries

\* worker w has left the retry loop of an identifier whose attempts, all
\* MaxRetries of them, ended in a failure of solveCaptcha
Exhausted(w) == pc[w] \in {"send", "release"} /\ kind[w] # "none" /\ onlySolver[w]

SelectorKinds == {"SelectorTimeoutError:numNit", "SelectorTimeoutError:verifying",
                  "SelectorTimeoutError:btnBuscar"}

\* C8: a task whose attempt 1 fails on a selector wait, at whichever step, is
\* not retried and has Attempts = 1.  Stated as the claim has it; the wait on
\* the challenge field reports "Error con captcha", so it fails.
C8_SelectorTimeoutNotRetried ==
    \A w \in Workers : (attempt[w] = 1 /\ kind[w] \in SelectorKinds) =>
        /\ ~WillRetry(w)
        /\ result[w].Attempts = 1

\* C9: retry is applied only after CaptchaSubmitError or CaptchaPollTimeout;
\* CaptchaUnsolvable and a failed capture of the challenge are terminal.  Stated
\* as the claim has it; both texts contain "captcha", so it fails.
C9_RetryOnlySubmitOrTimeout ==
    \A w \in Workers :
        WillRetry(w) => kind[w] \in {"CaptchaSubmitError", "CaptchaPollTimeout"}

\* worker w is in its attempt loop: in a call of processCedula or in the delay
\* before the next one
Processing(w) == pc[w] \in {"attempt", "sleep"}

\* C10: at no instant are two workers processing the same identifier value.
\* Stated as the claim has it; equal identifiers in two shards are processed by
\* their two workers at once, so it fails.
C10_NoIdentifierTwiceInFlight ==
    \A w, v \in Workers :
        (w # v /\ Processing(w) /\ Processing(v)) => Current(w) # Current(v)

\* C11: once ProcessCedulas has returned, every started worker has left its
\* identifier loop after the last identifier of its shard, no permit is held, and
\* for every input index one Result has been sent.
C11_ReturnsAfterWorkersDrained ==
    returned =>
        /\ \A w \in Workers : pc[w] = "done" /\ startIdx(w) + pos[w] = endIdx(w) + 1
        /\ sem = 0
        /\ \A i \in 1..Len(cedulas) : Len(handed[i]) = 1

\* C11 witness: the run of two workers has returned, one shard was processed by
\* attempts and the other was written off after a failed browser start
C11_ReturnedAfterTwoWorkers ==
    /\ returned
    /\ Cardinality(Workers) = 2
    /\ \E w, v \in Workers :
          /\ browserErr[w] /\ ~browserErr[v]
          /\ handed[endIdx(v)][1].Attempts = 1 /\ handed[endIdx(v)][1].Error = <<>>

\* ceil(n / w) for n >= 0 and w >= 1: the least q with q * w >= n
Ceil(n, w) == CHOOSE q \in 0..n : q * w >= n /\ \A p \in 0..(q - 1) : p * w < n

\* C12: the shards handed to the workers are contiguous, non-empty index ranges;
\* every input index lies in exactly one of them; shard i starts at i*ceil(N/W)
\* and has at most ceil(N/W) identifiers; a worker is only ever at an index of
\* its own shard, and no index gets more than one Result.
C12_ShardsPartitionInput ==
    /\ \A i \in 1..Len(cedulas) :
          Cardinality({w \in Workers : startIdx(w) < i /\ i <= endIdx(w)}) = 1
    /\ \A w \in Workers :
          /\ startIdx(w) = w * Ceil(Len(cedulas), optimalBrowsers)
          /\ startIdx(w) < endIdx(w)
          /\ endIdx(w) - startIdx(w) <= Ceil(Len(cedulas), optimalBrowsers)
          /\ Shard(w) = [k \in 1..(endIdx(w) - startIdx(w)) |-> cedulas[startIdx(w) + k]]
          /\ pc[w] # "done" => InputIndex(w) \in (startIdx(w) + 1)..endIdx(w)
    /\ \A i \in 1..Len(cedulas) : Len(handed[i]) <= 1

\* C12 witness: five identifiers in shards of three and two, the first worker at
\* the last identifier of its shard and the second one done
C12_UnevenShards ==
    /\ Len(cedulas) = 5 /\ Workers = {0, 1}
    /\ Len(Shard(0)) = 3 /\ Len(Shard(1)) = 2
    /\ pc[0] = "attempt" /\ InputIndex(0) = 3
    /\ pc[1] = "done" /\ handed[4] # <<>> /\ handed[5] # <<>>

\* C13 as the claim has it: by the time the run returns exactly W workers have
\* been started and have created a session, for every N.  A worker is started
\* only for a non-empty shard, so it fails for N < W.
C13_ExactlyWWorkers ==
    returned => Cardinality({w \in Workers : pc[w] # "start"}) = optimalBrowsers

\* C13 amended: W is NumCPU, or MaxParallelBrowsers when that is positive and
\* smaller; one worker is started for each non-empty shard, that is
\* ceil(N / ceil(N/W)) workers for N >= 1 and none for N = 0, never more than W
\* and exactly W when (W-1)*ceil(N/W) < N; each started worker is either about
\* to create its one session or has done so.
C13_OneWorkerPerNonEmptyShard ==
    /\ optimalBrowsers = IF config.MaxParallelBrowsers > 0
                         THEN Min(config.MaxParallelBrowsers, NumCPU) ELSE NumCPU
    /\ Cardinality(Workers) =
          IF Len(cedulas) = 0 THEN 0
          ELSE Ceil(Len(cedulas), Ceil(Len(cedulas), optimalBrowsers))
    /\ Cardinality(Workers) <= optimalBrowsers
    /\ (optimalBrowsers - 1) * Ceil(Len(cedulas), optimalBrowsers) < Len(cedulas)
          => Cardinality(Workers) = optimalBrowsers
    /\ DOMAIN pc = Workers /\ DOMAIN browserErr = Workers
    /\ \A w \in Workers : pc[w] = "start" => ~browserErr[w] /\ pos[w] = 1

\* C13 witness: one identifier and two browsers allowed; the only worker started
\* has created its session and processed the identifier
C13_FewerWorkersThanBrowsers ==
    /\ Len(cedulas) = 1 /\ optimalBrowsers = 2
    /\ Workers = {0} /\ pc[0] = "done" /\ ~browserErr[0]

\* C18: once rootCancel has been called, a worker waiting for a permit does not
\* go on to process its identifier (the wait is aborted and the identifiers not
\* yet started are skipped), and a worker in the retry delay makes no further
\* attempt.  Stated as the claim has it; Acquire is given context.Background()
\* and the delays are time.Sleep, so it fails.
C18_CancelStopsWorkers ==
    [][cancelled =>
          \A w \in Workers :
              /\ pc[w] = "acquire" => pc'[w] \in {"acquire", "done"}
              /\ pc[w] = "sleep" => pc'[w] # "attempt"]_vars

\* the last attempt of worker w ended because the deadline of line 249 expired
\* during a chromedp.Run
DeadlineExpired(w) ==
    /\ result[w].Error # <<>>
    /\ result[w].Error[Len(result[w].Error)] = "context deadline exceeded"

\* C19: when the timeout expires during an attempt, at whichever step of the
\* page interaction, the attempt is the identifier's last one: no retry follows.
\* Stated as the claim has it; the deadline is set anew in every call of
\* processCedula and its expiry at the two challenge steps is reported as
\* "Error con captcha", which is retried, so it fails.
C19_TimeoutEndsIdentifier ==
    \A w \in Workers : DeadlineExpired(w) => ~WillRetry(w)

\* C23: a configuration with MaxParallelBrowsers = 0 or Concurrency = 0 is
\* rejected at construction, so under such a configuration no worker ever
\* leaves its starting point.  NewScraper has a single return, with a nil
\* error, and ProcessCedulas starts the workers whatever the values are, so
\* the formula fails.
C23_ZeroConfigRejected ==
    (config.MaxParallelBrowsers = 0 \/ config.Concurrency = 0) =>
        \A w \in Workers : pc[w] = "start" /\ ~browserErr[w]

\* C24: for one identifier the attempts are strictly sequential and numbered
\* 1, 2, 3, ...: a worker enters its first attempt from the acquire with number
\* 1; it enters any other attempt only from the retry delay that followed the
\* return of the attempt before, with that attempt's number plus one; and the
\* attempt that returns carries the number it was started with.
C24_AttemptsSequential ==
    [][\A w \in Workers :
          /\ (pc[w] # "attempt" /\ pc'[w] = "attempt") =>
                \/ pc[w] = "acquire" /\ attempt'[w] = 1
                \/ /\ pc[w] = "sleep"
                   /\ result[w].Attempts = attempt[w]
                   /\ attempt'[w] = attempt[w] + 1
          /\ (pc[w] = "attempt" /\ pc'[w] # "attempt") =>
                /\ pc'[w] \in {"sleep", "send"}
                /\ attempt'[w] = attempt[w]
                /\ result'[w].Attempts = attempt[w]
          /\ (pc[w] = "attempt" /\ pc'[w] = "attempt") => attempt'[w] = attempt[w]]_vars

\* the second attempt on an identifier has returned, after a retry delay
C24_SecondAttemptReturned ==
    \E w \in Workers :
        /\ pc[w] = "send"
        /\ attempt[w] = 2
        /\ result[w].Attempts = 2

\* C25: for distinct identifiers, the slice ProcessCedulas returns holds, at the
\* index of each identifier whose attempt k <= MaxRetries succeeded after k - 1
\* retried failures, the success Result with Attempts = k that its worker sent.
\* The worker does send that Result, but the return does not wait for the
\* collector to store it (C1), so the formula fails.
C25_SuccessAfterRetriesInOutput ==
    (returned /\ \A i, j \in 1..Len(cedulas) : cedulas[i] = cedulas[j] => i = j) =>
        \A i \in 1..Len(cedulas) : \A k \in 1..Len(handed[i]) :
            (handed[i][k].Error = <<>> /\ handed[i][k].Attempts \in 1..config.MaxRetries) =>
                results[i] = handed[i][k]

\* the identifier at index i occurs again further on in the input
OccursLater(i) == \E j \in (i + 1)..Len(cedulas) : cedulas[j] = cedulas[i]

\* C29: when an identifier occurs at several indices only the slot of its last
\* occurrence is ever written: the slots of the earlier occurrences stay empty
\* in every step, and a slot that changes is the last occurrence of the written
\* Result's identifier and takes a Result that was sent for one of that
\* identifier's occurrences, replacing whatever the slot held before.
C29_DuplicatesCollapseOnLastIndex ==
    [][\A i \in 1..Len(cedulas) :
          /\ OccursLater(i) => results'[i] = ZeroResult
          /\ results'[i] # results[i] =>
                /\ ~OccursLater(i)
                /\ results'[i].Cedula = cedulas[i]
                /\ \E j \in 1..Len(cedulas) : \E k \in 1..Len(handed'[j]) :
                      cedulas[j] = cedulas[i] /\ handed'[j][k] = results'[i]]_vars

\* C29 witness: the identifier occurs twice, both Results have been collected,
\* and the one of the first occurrence, which differs and arrived later, has
\* overwritten the other in the slot of the last occurrence
C29_LaterArrivalOverwrote ==
    /\ Len(cedulas) = 2 /\ cedulas[1] = cedulas[2]
    /\ handed[1] # <<>> /\ handed[2] # <<>> /\ resultsCh = <<>>
    /\ handed[1][1] # handed[2][1]
    /\ results[2] = handed[1][1]
    /\ results[1] = ZeroResult

\* C31: when ProcessCedulas returns, every Result a worker sent has been written
\* into the slice: none is left in the channel buffer, and every sent Result
\* that has an index is, or has been overwritten in, its slot.  Nothing makes
\* the return wait for the collector goroutine (C1), so the formula fails.
C31_CollectorDrainedAtReturn ==
    returned =>
        /\ resultsCh = <<>>
        /\ \A i \in 1..Len(cedulas) :
              (handed[i] # <<>> /\ HasIndex(handed[i][1].Cedula)) =>
                  results[cedulaIndices(handed[i][1].Cedula)] # ZeroResult

\* the places of a worker between sem.Acquire and sem.Release
Holding == {"attempt", "sleep", "send", "release"}

\* C32: the permits in use always equal the number of workers between Acquire
\* and Release, so a worker holds at most one; a worker comes to hold a permit
\* only by its Acquire, which takes exactly one; it keeps it through attempts
\* and retry delays and gives it up only by the Release that follows the send of
\* the identifier's Result, which frees exactly one; and when all workers have
\* finished no permit is in use.
C32_PermitAccounting ==
    [][/\ sem' = Cardinality({w \in Workers : pc'[w] \in Holding})
       /\ (\A w \in Workers : pc'[w] = "done") => sem' = 0
       /\ \A w \in Workers :
             /\ (pc[w] \notin Holding /\ pc'[w] \in Holding) =>
                   pc[w] = "acquire" /\ sem' = sem + 1
             /\ (pc[w] \in Holding /\ pc'[w] \notin Holding) =>
                   /\ pc[w] = "release" /\ sem' = sem - 1
                   /\ handed[InputIndex(w)] # <<>>
             /\ (pc[w] \in {"attempt", "sleep"} /\ pc'[w] # pc[w]) => pc'[w] \in Holding
             /\ (pc[w] = "send" /\ pc'[w] # "send") =>
                   pc'[w] = "release" /\ handed'[InputIndex(w)] # <<>>]_vars

\* C32 witness: one worker has released its permit after a retry delay and a
\* send and has finished, while another still holds the only permit in use
C32_OneReleasedOneHolding ==
    \E w, v \in Workers :
        /\ pc[w] = "done" /\ ~browserErr[w]
        /\ \E i \in 1..Len(cedulas) :
              handed[i] # <<>> /\ handed[i][1].Error # <<>> /\ handed[i][1].Attempts >= 1
        /\ pc[v] = "sleep"
        /\ sem = 1

\* C33: with at least one permit, every run in which each goroutine keeps being
\* scheduled ends: every worker finishes and ProcessCedulas returns, also with
\* fewer permits than workers and with more Results than the channel buffer
\* holds.
C33_EveryRunReturns ==
    (config.Concurrency >= 1) ~> (returned /\ AllDone)

\* C33 witness: ProcessCedulas has returned from a run with one permit, two
\* workers and three Results, one more than the channel buffer holds
C33_ReturnedWithOnePermit ==
    /\ returned /\ AllDone
    /\ config.Concurrency = 1 /\ ChanCap = 2
    /\ Cardinality(Workers) = 2
    /\ Len(cedulas) = 3
    /\ \A i \in 1..3 : handed[i] # <<>>

SubmitRefused == solver.ack # <<>> /\ solver.ack[1].kind = "json" /\ solver.ack[1].Status # 1

\* C14: in each of the three clients, a submit answered with a status other than
\* 1 makes the client return failure at once: no poll request is ever made and
\* the submit request is not made again.
C14_RefusedSubmitNotPolled ==
    /\ solver.submits <= 1
    /\ SubmitRefused =>
          /\ solver.pc = "done"
          /\ solver.outcome = IF solver.client = "solveCaptcha" THEN "error" ELSE "null"
          /\ solver.polls = 0 /\ solver.submits = 1

\* C14 witness: the JS client of src/js/main.js has returned null after the
\* service refused the submit
C14_SubmitRefusedJs ==
    /\ solver.client = "js/main.js" /\ SubmitRefused /\ solver.outcome = "null"

\* C15: in the two JS clients a poll reply that is neither solved nor not-ready
\* nor unsolvable ends the job: the client has returned failure and polls no
\* more.  Stated as the claim has it; both clients go on polling, so it fails.
C15_OtherReplyIsTerminalJs ==
    (solver.client \in {"js/main.js", "main.js"} /\ solver.status = "Error") =>
        solver.pc = "done" /\ solver.outcome = "null"

\* the moves of the job's status the spec allows
StatusMoves ==
    ({"None"} \X {"None", "Submitted"})
    \cup ({"Submitted", "NotReady"} \X {"NotReady", "Solved", "Unsolvable", "Error"})
    \cup {<<"Submitted", "Submitted">>}
    \cup {<<t, t>> : t \in {"Solved", "Unsolvable", "Error"}}

TerminalStatus == {"Solved", "Unsolvable", "Error"}

\* C16: in Go solveCaptcha the status moves only along Submitted -> NotReady* ->
\* {Solved | Unsolvable | Error}; once it is terminal the client has returned,
\* and no step makes a further poll request or changes the status.
C16_StatusMonotoneGo ==
    [][solver.client = "solveCaptcha" =>
          /\ <<solver.status, solver'.status>> \in StatusMoves
          /\ solver.status \in TerminalStatus =>
                solver'.polls = solver.polls /\ solver'.status = solver.status
          /\ solver'.status \in TerminalStatus => solver'.pc = "done"]_vars

\* C16 witness: the Go client has returned on an unsolvable reply that came
\* after a not-ready one and a lost poll, three polls in all
C16_UnsolvableAfterNotReadyGo ==
    /\ solver.client = "solveCaptcha" /\ solver.pc = "done"
    /\ solver.status = "Unsolvable" /\ solver.err = "CaptchaUnsolvable"
    /\ solver.polls = 3 /\ solver.lost = 1

\* C17: a client makes one poll request per loop iteration, lost ones included,
\* and never more than its maxPollAttempts (30, 20, 30); it returns the timeout
\* outcome only after exactly that many, and a client that returns while the
\* job is not in a terminal status returns the timeout outcome.
C17_TimeoutAfterExactlyMaxPolls ==
    /\ solver.polls = solver.attempts /\ solver.polls <= MaxAttempts(solver.client)
    /\ solver.lost <= solver.polls
    /\ solver.err \in {"timeout", "CaptchaPollTimeout"} =>
          solver.pc = "done" /\ solver.polls = MaxAttempts(solver.client)
    /\ (solver.pc = "done" /\ solver.status \in {"Submitted", "NotReady"}) =>
          /\ solver.polls = MaxAttempts(solver.client)
          /\ solver.err = IF solver.client = "solveCaptcha" THEN "CaptchaPollTimeout"
                          ELSE "timeout"
          /\ solver.outcome = IF solver.client = "solveCaptcha" THEN "error" ELSE "null"

\* C17 witness: the client of src/js/main.js timed out after 20 polls, some of
\* them lost in transport
C17_TimedOutJs ==
    /\ solver.client = "js/main.js" /\ solver.pc = "done" /\ solver.err = "timeout"
    /\ solver.polls = 20 /\ solver.lost = 3 /\ solver.status = "NotReady"

\* C30: in the client of src/js/main.js the delay slept before the first poll
\* is 1000 ms and before every later poll it is the previous delay doubled, at
\* most 2000 ms; after every poll that does not end the run (not ready, other
\* error reply, transport error or timeout) delay becomes min(2 * delay, 2000);
\* so the delays never decrease and never exceed 2000 ms.
C30_BackoffDoublesToCap ==
    [][(solver.client = "js/main.js" /\ solver'.polls = solver.polls + 1) =>
          /\ solver'.waited = (IF solver.polls = 0 THEN 1000
                               ELSE Min(2 * solver.waited, 2000))
          /\ solver'.pc = "poll" => solver'.delay = Min(2 * solver.delay, 2000)
          /\ solver'.waited >= solver.waited
          /\ solver'.waited <= 2000]_vars

\* C30 witness: the third poll was made after a delay of 2000 ms, one of the
\* polls before having been lost in transport, and the run goes on
C30_ThirdPollAtCap ==
    /\ solver.client = "js/main.js" /\ solver.pc = "poll"
    /\ solver.polls = 3 /\ solver.lost = 1
    /\ solver.waited = 2000 /\ solver.delay = 2000

(***************************************************************************)
(* Properties of the JS pool.                                              *)
(***************************************************************************)
\* C20: when the global timeout ends the run, scrapeDianCedulas still returns a
\* result sequence with one entry per input identifier, where a task that had
\* fulfilled keeps its result and every other identifier has an Error entry.
\* Stated as the claim has it; the rejection of the race goes to the catch of
\* line 325, which returns nothing, so it fails.
C20_TimeoutStillYieldsResults ==
    (pool.pc = "done" /\ pool.race = "timeout") =>
        /\ pool.returned = "resultados"
        /\ Len(pool.results) = Len(pool.cedulas)
        /\ \A i \in 1..Len(pool.results) :
              /\ pool.results[i].cedula = pool.cedulas[i]
              /\ pool.tasks[i] # "fulfilled" =>
                    pool.results[i].estado = "Error: Captcha unsolved"

\* C21: every failure while processing one identifier becomes an error result:
\* no task rejects, limitConcurrency's promise never rejects, and a run the
\* timeout did not end returns the results, one per input identifier.
\* browser.newPage (line 168) and page.close (line 244) are outside the try's
\* catch, so a task can reject and the formula fails.
C21_FailuresAreCaptured ==
    /\ \A i \in 1..Len(pool.tasks) : pool.tasks[i] # "rejected"
    /\ pool.promise # "rejected"
    /\ (pool.pc = "done" /\ pool.race # "timeout") =>
          /\ pool.returned = "resultados"
          /\ Len(pool.results) = Len(pool.cedulas)

\* the tasks started and not yet settled
InFlight == {i \in 1..Len(pool.tasks) : pool.tasks[i] = "running"}

\* C27: with limit >= 1, in every state the number of tasks started and not yet
\* settled is at most limit, whatever the order in which tasks complete.
C27_InFlightAtMostLimit ==
    pool.limit >= 1 => Cardinality(InFlight) <= pool.limit

\* C27 witness: the pool runs at its limit of two with a later task started
\* after an earlier one completed out of order
C27_FullAfterOutOfOrderCompletion ==
    /\ pool.limit = 2 /\ Cardinality(InFlight) = 2
    /\ Len(pool.tasks) = 3
    /\ pool.tasks[2] = "fulfilled" /\ pool.tasks[1] = "running"

\* C28: as long as no task has rejected, every task has been started at most
\* once and the started tasks are exactly those below taskIndex (index order,
\* none skipped, none twice); and once the promise is resolved every task has
\* been started once and has fulfilled, and results[i] is the value task i
\* fulfilled with, whatever the order of completion.
C28_EachTaskOnceResultsByIndex ==
    (\A i \in 1..Len(pool.tasks) : pool.tasks[i] # "rejected") =>
        /\ \A i \in 1..Len(pool.tasks) :
              /\ pool.starts[i] = (IF i <= pool.taskIndex THEN 1 ELSE 0)
              /\ (pool.tasks[i] = "new") <=> (i > pool.taskIndex)
        /\ pool.promise = "resolved" =>
              /\ pool.taskIndex = Len(pool.tasks)
              /\ \A i \in 1..Len(pool.tasks) : pool.tasks[i] = "fulfilled"
              /\ Len(pool.results) = Len(pool.tasks)
              /\ \A i \in 1..Len(pool.tasks) : pool.results[i] = pool.values[i]

\* C28 witness: three tasks under limit 2 have fulfilled in the order 2, 1, 3
\* with different values, and the promise is resolved
C28_ResolvedAfterOutOfOrderCompletion ==
    /\ pool.promise = "resolved"
    /\ pool.limit = 2
    /\ pool.settled = <<2, 1, 3>>
    /\ pool.values[1] # pool.values[2]
    /\ pool.cedulas[1] = pool.cedulas[3]

\* the tasks that have rejected
RejectedTasks == {i \in 1..Len(pool.tasks) : pool.tasks[i] = "rejected"}

\* C35: when a task rejects, the promise rejects if it was pending, and the
\* step neither frees the task's slot nor starts a task; a rejected promise
\* stays rejected; the running counter keeps counting every rejected task; and
\* when, after a rejection, another in-flight task fulfils while tasks are
\* still waiting and the counter was at the limit, the next task is started.
C35_RejectionKeepsSlotAndScheduling ==
    [][/\ pool.promise = "rejected" => pool'.promise = "rejected"
       /\ pool'.running = Cardinality(InFlight') + Cardinality(RejectedTasks')
       /\ \A i \in 1..Len(pool.tasks) :
             /\ (pool.tasks[i] = "running" /\ pool'.tasks[i] = "rejected") =>
                   /\ pool'.promise = "rejected"
                   /\ pool'.running = pool.running
                   /\ pool'.taskIndex = pool.taskIndex
             /\ (/\ pool.tasks[i] = "running" /\ pool'.tasks[i] = "fulfilled"
                 /\ RejectedTasks # {}
                 /\ pool.running = pool.limit
                 /\ pool.taskIndex < Len(pool.tasks)) =>
                   /\ pool'.taskIndex = pool.taskIndex + 1
                   /\ pool'.tasks[pool.taskIndex + 1] = "running"]_vars

\* C35 witness: under limit 2 the first task rejected, then the second
\* fulfilled, which started the third; the promise is rejected and the counter
\* still counts the rejected task
C35_StartedAfterRejection ==
    /\ pool.limit = 2 /\ pool.settled = <<1, 2>>
    /\ pool.tasks = <<"rejected", "fulfilled", "running">>
    /\ pool.promise = "rejected"
    /\ pool.running = 2

\* C36: once limitConcurrency has been called, with an empty task list the
\* promise is resolved with an empty array whatever the limit; with a non-empty
\* task list and limit <= 0 no task is ever started and the promise stays
\* pending.
C36_EmptyListAndNoLimit ==
    pool.pc \in {"await", "done"} =>
        /\ Len(pool.cedulas) = 0 =>
              pool.promise = "resolved" /\ pool.results = <<>>
        /\ (Len(pool.cedulas) > 0 /\ pool.limit <= 0) =>
              /\ pool.promise = "pending"
              /\ pool.taskIndex = 0 /\ pool.running = 0
              /\ \A i \in 1..Len(pool.tasks) :
                    pool.tasks[i] = "new" /\ pool.starts[i] = 0

\* C36 witness: a run of two tasks under a negative limit has ended by the
\* global timeout with the pool's promise still pending and no task started
C36_NothingStartedUnderNegativeLimit ==
    /\ pool.pc = "done" /\ pool.race = "timeout"
    /\ pool.limit < 0 /\ Len(pool.tasks) = 2
    /\ pool.promise = "pending"
    /\ pool.starts = <<0, 0>>

(***************************************************************************)
(* Properties of the sequential JS scraper.                                *)
(***************************************************************************)
\* C22: every iteration of the loop of src/main.js appends exactly one entry,
\* so after i iterations resultados holds one entry for each of the first i
\* identifiers, in input order.  The path where the solver returns no token
\* continues without a push (line 215), so the formula fails.
C22_OneEntryPerIdentifier ==
    /\ \A k \in 1..Len(seq.pushed) : seq.pushed[k] = 1
    /\ Len(seq.resultados) = seq.i
    /\ \A k \in 1..Len(seq.resultados) : seq.resultados[k].cedula = seq.cedulas[k]

(***************************************************************************)
(* Properties of the input readers.                                        *)
(***************************************************************************)
\* the first column of every row but the first, trimmed, blanks dropped
FirstColumnBelowHeader(rows) ==
    SelectSeq([i \in 1..(Len(rows) - 1) |->
                  IF rows[i + 1] = <<>> THEN <<>> ELSE TrimSpace(rows[i + 1][1])],
              LAMBDA c : c # <<>>)

\* C26: each reader returns the first column of every row except the header
\* row, trimmed, without the blank values, in order.  The JS reader maps over
\* all rows, the first included, so the formula fails for it.
C26_ReadersSkipHeaderTrimDropBlank ==
    reader.pc = "returned" => reader.cedulas = FirstColumnBelowHeader(reader.rows)

====
